---- MODULE Spec2Model ----
(***************************************************************************)
(* npm-parser: the version detector, the report decoders and the field     *)
(* codecs of src/src/audit.rs and src/src/outdated.rs.                      *)
(*                                                                          *)
(* A version string is the sequence of its characters.  JSON object keys    *)
(* and enumeration names are atoms.                                         *)
(***************************************************************************)
EXTENDS Integers, Sequences, FiniteSets, TLC

VARIABLES
    pc,                 \* position inside the operation being run
    version_output,     \* stdout of `npm --version` (audit.rs:498)
    version,            \* the trimmed version string (audit.rs:500)
    parsed,             \* what versions::Versioning::new returned (audit.rs:504)
    report_format,      \* audit.rs:504
    output,             \* std::process::Output of the report command
    tracing,            \* which tracing levels the subscriber has enabled
    update_requirement, \* audit.rs:549 / outdated.rs:101
    ret,                \* the Result the operation returned
    json_in,            \* the JSON value handed to a codec
    decoded,            \* the value a codec decoded
    encoded             \* the JSON value a codec encoded

vars == <<pc, version_output, version, parsed, report_format, output, tracing,
          update_requirement, ret, json_in, decoded, encoded>>

\* The value of a variable the running operation has not assigned (yet).
Unset == [unset |-> TRUE]

(***************************************************************************)
(* Bounds                                                                   *)
(***************************************************************************)
\* longest `npm --version` body the detector is run on
MaxVersionLen == 5

(***************************************************************************)
(* Character strings                                                        *)
(***************************************************************************)
\* all sequences over `alphabet` of length 0..n
RECURSIVE SeqsUpTo(_, _)
SeqsUpTo(alphabet, n) ==
    IF n = 0 THEN {<<>>}
    ELSE LET shorter == SeqsUpTo(alphabet, n - 1)
         IN  shorter \cup {Append(s, c) : s \in {x \in shorter : Len(x) = n - 1}, c \in alphabet}

\* char::is_whitespace, restricted to the characters the model uses
Whitespace == {" ", "\n"}

\* str::trim: drop leading and trailing whitespace
RECURSIVE trim_start(_)
trim_start(s) ==
    IF s # <<>> /\ Head(s) \in Whitespace THEN trim_start(Tail(s)) ELSE s

RECURSIVE trim_end(_)
trim_end(s) ==
    IF s # <<>> /\ s[Len(s)] \in Whitespace THEN trim_end(SubSeq(s, 1, Len(s) - 1)) ELSE s

trim(s) == trim_end(trim_start(s))

\* str::split(sep): the substrings between occurrences of sep, in order;
\* always at least one (the empty string splits into one empty substring)
RECURSIVE split(_, _)
split(s, sep) ==
    IF \A i \in 1..Len(s) : s[i] # sep THEN <<s>>
    ELSE LET i == CHOOSE i \in 1..Len(s) : s[i] = sep /\ \A j \in 1..(i - 1) : s[j] # sep
         IN  <<SubSeq(s, 1, i - 1)>> \o split(SubSeq(s, i + 1, Len(s)), sep)

\* [String]::join(sep)
RECURSIVE join(_, _)
join(xs, sep) ==
    IF xs = <<>> THEN <<>>
    ELSE IF Len(xs) = 1 THEN xs[1]
    ELSE xs[1] \o <<sep>> \o join(Tail(xs), sep)

(***************************************************************************)
(* versions::Versioning (external crate), as far as audit() depends on it   *)
(***************************************************************************)
DigitChars == <<"0", "1", "2", "3", "4", "5", "6", "7", "8", "9">>

IsDigit(c) == \E i \in 1..10 : DigitChars[i] = c

DigitValue(c) == (CHOOSE i \in 1..10 : DigitChars[i] = c) - 1

RECURSIVE DecimalValue(_)
DecimalValue(ds) ==
    IF ds = <<>> THEN 0
    ELSE 10 * DecimalValue(SubSeq(ds, 1, Len(ds) - 1)) + DigitValue(ds[Len(ds)])

\* a SemVer numeric identifier: digits, no leading zero
IsNumeral(ds) ==
    /\ ds # <<>>
    /\ \A i \in 1..Len(ds) : IsDigit(ds[i])
    /\ (Len(ds) > 1 => ds[1] # "0")

\* MAJOR.MINOR.PATCH
IsSemVerCore(s) ==
    LET parts == split(s, ".")
    IN  Len(parts) = 3 /\ \A i \in 1..3 : IsNumeral(parts[i])

Ideal(s) ==
    LET parts == split(s, ".")
    IN  [kind |-> "Ideal", major |-> DecimalValue(parts[1]),
         minor |-> DecimalValue(parts[2]), patch |-> DecimalValue(parts[3])]

\* characters no version grammar of the crate accepts
NoVersionChars == {" ", "\n", "!"}

NoVersion == [kind |-> "None"]

\* A version the crate parsed in one of its looser grammars (General, Complex).
\* How it compares with 7.0.0 is the crate's business: both orders are possible.
Loose(below) == [kind |-> "Loose", below |-> below]

\* Versioning::new(s): the possible results.  A MAJOR.MINOR.PATCH string is an
\* Ideal version; the empty string and a string holding a character outside
\* every grammar is None; for anything else the result is the crate's choice.
Versioning_new(s) ==
    IF IsSemVerCore(s) THEN {Ideal(s)}
    ELSE IF s = <<>> \/ \E i \in 1..Len(s) : s[i] \in NoVersionChars THEN {NoVersion}
    ELSE {NoVersion, Loose(TRUE), Loose(FALSE)}

\* Ord for Versioning against an Ideal version: major, minor, patch in turn
VersionLess(v, w) ==
    IF v.kind = "Loose" THEN v.below
    ELSE \/ v.major < w.major
         \/ v.major = w.major /\ v.minor < w.minor
         \/ v.major = w.major /\ v.minor = w.minor /\ v.patch < w.patch

(***************************************************************************)
(* audit(): the version detector                                            *)
(***************************************************************************)
\* versions::Versioning::new("7.0.0").unwrap()
audit_report_change == Ideal(<<"7", ".", "0", ".", "0">>)

\* the match on Versioning::new(version)
ReportFormatMutantInclusive(p) ==
    IF p.kind = "None" THEN 2
    ELSE IF VersionLess(p, audit_report_change) \/ p = audit_report_change THEN 1 ELSE 2

ReportFormat(p) ==
    IF p.kind = "None" THEN 2
    ELSE IF VersionLess(p, audit_report_change) THEN 1 ELSE 2

(***************************************************************************)
(* JSON values.  An object is the sequence of its members in document       *)
(* order, so duplicate keys and key order are part of the value.  The text  *)
(* of a string is a sequence of tokens: a token is a separator character or *)
(* a run of characters holding no separator.                                *)
(***************************************************************************)
JNull == [t |-> "null"]

JBool(b) == [t |-> "bool", b |-> b]

\* an integer literal
JNum(n) == [t |-> "num", n |-> n]

\* an integer literal in 2^32 .. 2^64-1
JBigNum == [t |-> "bignum"]

\* a literal with a fraction
JFloat == [t |-> "float"]

JStr(s) == [t |-> "str", s |-> s]

JArr(a) == [t |-> "arr", a |-> a]

JObj(o) == [t |-> "obj", o |-> o]

Member(k, v) == [k |-> k, v |-> v]

(***************************************************************************)
(* Decoding results.  A failure carries the serde_path_to_error path (the   *)
(* chain of keys and indices from the value being decoded) and the serde    *)
(* error.                                                                   *)
(***************************************************************************)
Ok(v) == [ok |-> TRUE, v |-> v]

Err(path, msg) == [ok |-> FALSE, path |-> path, msg |-> msg]

Key(k) == [seg |-> "key", key |-> k]

Index(i) == [seg |-> "index", index |-> i]

\* a failure inside the member or element `seg` of a value
Under(seg, r) == IF r.ok THEN r ELSE Err(<<seg>> \o r.path, r.msg)

\* a failure met while decoding from a buffered value: the path stops at the
\* buffered value
Buffered(r) == IF r.ok THEN r ELSE Err(<<>>, r.msg)

MissingField(f) == [error |-> "missing field", field |-> f]

DuplicateField(f) == [error |-> "duplicate field", field |-> f]

InvalidType == [error |-> "invalid type"]

InvalidLength == [error |-> "invalid length"]

UnknownVariant == [error |-> "unknown variant"]

NoVariantMatched == [error |-> "data did not match any variant of untagged enum"]

Custom == [error |-> "custom"]

None == [some |-> FALSE]

Some(v) == [some |-> TRUE, v |-> v]

Min(S) == CHOOSE x \in S : \A y \in S : x <= y

(***************************************************************************)
(* Type descriptors: what #[derive(Serialize, Deserialize)] sees            *)
(***************************************************************************)
TString == [k |-> "string"]

TBool == [k |-> "bool"]

TU32 == [k |-> "u32"]

TU64 == [k |-> "u64"]

TOption(of) == [k |-> "option", of |-> of]

TVec(of) == [k |-> "vec", of |-> of]

TMap(of) == [k |-> "map", of |-> of]

\* a field decoded and encoded by the named pair of helper functions
TWith(helper) == [k |-> "with", helper |-> helper]

\* a struct; map_only: no positional (array) form
TStruct(fields, map_only) == [k |-> "struct", fields |-> fields, map_only |-> map_only]

Field(name, json, ty) == [name |-> name, json |-> json, ty |-> ty]

\* an enum of unit variants
TUnitEnum(variants) == [k |-> "unit_enum", variants |-> variants]

\* #[serde(tag = ...)]
TTagged(tag, variants) == [k |-> "tagged", tag |-> tag, variants |-> variants]

\* #[serde(untagged)]
TUntagged(variants) == [k |-> "untagged", variants |-> variants]

Variant(name, json, ty) == [name |-> name, json |-> json, ty |-> ty]

\* the content of a unit variant
TUnit == [k |-> "unit"]

(***************************************************************************)
(* time::OffsetDateTime and its Rfc3339 format (external crate).  The text  *)
(* of a timestamp is the token sequence date, "T", time, [fraction],        *)
(* offset.                                                                  *)
(***************************************************************************)
\* date token -> day number
DateTokens == ("2021-03-01" :> 0) @@ ("2021-03-02" :> 1)

\* time token -> second of the day
TimeTokens == ("00:30:00" :> 1800) @@ ("23:30:00" :> 84600)

\* fraction token -> tenths of a second
FractionTokens == (".0" :> 0) @@ (".5" :> 5) @@ (".50" :> 5)

\* offset token -> minutes east of UTC
OffsetTokens == ("Z" :> 0) @@ ("z" :> 0) @@ ("+00:00" :> 0) @@ ("+01:00" :> 60) @@ ("-01:00" :> -60)

IsRfc3339(s) ==
    /\ Len(s) \in {4, 5}
    /\ s[1] \in DOMAIN DateTokens
    /\ s[2] \in {"T", "t"}
    /\ s[3] \in DOMAIN TimeTokens
    /\ (Len(s) = 5 => s[4] \in DOMAIN FractionTokens)
    /\ s[Len(s)] \in DOMAIN OffsetTokens

\* OffsetDateTime::parse(&s, &Rfc3339), for s with IsRfc3339(s)
OffsetDateTime_parse(s) ==
    [date |-> DateTokens[s[1]], time |-> TimeTokens[s[3]],
     tenths |-> IF Len(s) = 5 THEN FractionTokens[s[4]] ELSE 0,
     offset |-> OffsetTokens[s[Len(s)]]]

\* t.format(&Rfc3339): upper-case T, the fraction without trailing zeros and
\* only when it is not zero, Z for the UTC offset
OffsetDateTime_format(t) ==
    <<CHOOSE d \in DOMAIN DateTokens : DateTokens[d] = t.date, "T",
      CHOOSE c \in DOMAIN TimeTokens : TimeTokens[c] = t.time>>
    \o (IF t.tenths = 0 THEN <<>> ELSE <<CHOOSE f \in {".5"} : FractionTokens[f] = t.tenths>>)
    \o <<IF t.offset = 0 THEN "Z"
         ELSE CHOOSE o \in {"+01:00", "-01:00"} : OffsetTokens[o] = t.offset>>

\* the instant a timestamp denotes: tenths of a second since day 0, UTC
Instant(t) == ((t.date * 86400 + t.time) - t.offset * 60) * 10 + t.tenths

(***************************************************************************)
(* serde: decoding a JSON value as a type                                   *)
(***************************************************************************)
RECURSIVE Decode(_, _)
RECURSIVE DecodeWith(_, _)
RECURSIVE DecodeFields(_, _)
RECURSIVE DecodeTuple(_, _)
RECURSIVE DecodeTagged(_, _)
RECURSIVE DecodeUntagged(_, _, _)

\* the index of the field whose JSON name is key; 0 when there is none
FieldIndex(fields, key) ==
    IF \E f \in 1..Len(fields) : fields[f].json = key
    THEN CHOOSE f \in 1..Len(fields) : fields[f].json = key
    ELSE 0

\* the derived visit_map: the members in document order (an unknown key is
\* skipped, a repeated field is an error before its value is read, a value
\* that fails to decode is an error under that key), then the first missing
\* field in declaration order (an absent Option<T> without deserialize_with
\* is None)
DecodeFields(fields, members) ==
    LET known(i) == FieldIndex(fields, members[i].k)
        res == [i \in 1..Len(members) |->
                   IF known(i) = 0 THEN Ok(None)
                   ELSE IF \E h \in 1..(i - 1) : members[h].k = members[i].k
                        THEN Err(<<>>, DuplicateField(members[i].k))
                   ELSE Under(Key(members[i].k), Decode(fields[known(i)].ty, members[i].v))]
        bad == {i \in 1..Len(members) : ~res[i].ok}
        present(f) == \E i \in 1..Len(members) : members[i].k = fields[f].json
        missing == {f \in 1..Len(fields) : fields[f].ty.k # "option" /\ ~present(f)}
    IN  IF bad # {} THEN res[Min(bad)]
        ELSE IF missing # {} THEN Err(<<>>, MissingField(fields[Min(missing)].json))
        ELSE Ok([n \in {fields[f].name : f \in 1..Len(fields)} |->
                    LET f == CHOOSE f \in 1..Len(fields) : fields[f].name = n
                    IN  IF present(f)
                        THEN res[CHOOSE i \in 1..Len(members) : members[i].k = fields[f].json].v
                        ELSE None])

\* the derived visit_seq: the fields by position; too few or too many
\* elements is an error
DecodeTuple(fields, elems) ==
    LET n == IF Len(elems) < Len(fields) THEN Len(elems) ELSE Len(fields)
        res == [i \in 1..n |-> Under(Index(i - 1), Decode(fields[i].ty, elems[i]))]
        bad == {i \in 1..n : ~res[i].ok}
    IN  IF bad # {} THEN res[Min(bad)]
        ELSE IF Len(elems) # Len(fields) THEN Err(<<>>, InvalidLength)
        ELSE Ok([m \in {fields[f].name : f \in 1..Len(fields)} |->
                    res[CHOOSE f \in 1..Len(fields) : fields[f].name = m].v])

VariantIndex(variants, s) ==
    IF \E i \in 1..Len(variants) : s = <<variants[i].json>>
    THEN CHOOSE i \in 1..Len(variants) : s = <<variants[i].json>>
    ELSE 0

\* an internally tagged enum: the tag is looked up while the other members
\* are buffered, then the variant's fields are decoded from the buffer
DecodeTagged(ty, j) ==
    IF j.t = "obj" THEN
        LET tags == {i \in 1..Len(j.o) : j.o[i].k = ty.tag}
            tagErr(i) ==
                IF \E h \in tags : h < i THEN Err(<<>>, DuplicateField(ty.tag))
                ELSE IF j.o[i].v.t # "str" THEN Err(<<Key(ty.tag)>>, InvalidType)
                ELSE IF VariantIndex(ty.variants, j.o[i].v.s) = 0
                     THEN Err(<<Key(ty.tag)>>, UnknownVariant)
                ELSE Ok(None)
            bad == {i \in tags : ~tagErr(i).ok}
            rest == SelectSeq(j.o, LAMBDA m : m.k # ty.tag)
        IN  IF bad # {} THEN tagErr(Min(bad))
            ELSE IF tags = {} THEN Err(<<>>, MissingField(ty.tag))
            ELSE LET v == ty.variants[VariantIndex(ty.variants, j.o[Min(tags)].v.s)]
                     r == Buffered(DecodeFields(v.ty.fields, rest))
                 IN  IF r.ok THEN Ok([variant |-> v.name, v |-> r.v]) ELSE r
    ELSE IF j.t = "arr" THEN
        IF j.a = <<>> THEN Err(<<>>, MissingField(ty.tag))
        ELSE IF j.a[1].t # "str" THEN Err(<<Index(0)>>, InvalidType)
        ELSE IF VariantIndex(ty.variants, j.a[1].s) = 0 THEN Err(<<Index(0)>>, UnknownVariant)
        ELSE LET v == ty.variants[VariantIndex(ty.variants, j.a[1].s)]
                 r == Buffered(DecodeTuple(v.ty.fields, Tail(j.a)))
             IN  IF r.ok THEN Ok([variant |-> v.name, v |-> r.v]) ELSE r
    ELSE Err(<<>>, InvalidType)

\* an untagged enum: the value is buffered and the variants are tried in
\* declaration order, from variant i on; the first that decodes wins
DecodeUntagged(ty, j, i) ==
    IF i > Len(ty.variants) THEN Err(<<>>, NoVariantMatched)
    ELSE LET r == Decode(ty.variants[i].ty, j)
         IN  IF r.ok THEN Ok([variant |-> ty.variants[i].name, v |-> r.v])
             ELSE DecodeUntagged(ty, j, i + 1)

Decode(ty, j) ==
    CASE ty.k = "string" -> IF j.t = "str" THEN Ok(j.s) ELSE Err(<<>>, InvalidType)
      [] ty.k = "bool" -> IF j.t = "bool" THEN Ok(j.b) ELSE Err(<<>>, InvalidType)
      [] ty.k = "u32" -> IF j.t = "num" /\ j.n >= 0 THEN Ok(j) ELSE Err(<<>>, InvalidType)
      [] ty.k = "u64" ->
            IF (j.t = "num" /\ j.n >= 0) \/ j.t = "bignum" THEN Ok(j) ELSE Err(<<>>, InvalidType)
      [] ty.k = "option" ->
            IF j.t = "null" THEN Ok(None)
            ELSE LET r == Decode(ty.of, j) IN IF r.ok THEN Ok(Some(r.v)) ELSE r
      [] ty.k = "vec" ->
            IF j.t # "arr" THEN Err(<<>>, InvalidType)
            ELSE LET res == [i \in 1..Len(j.a) |-> Under(Index(i - 1), Decode(ty.of, j.a[i]))]
                     bad == {i \in 1..Len(j.a) : ~res[i].ok}
                 IN  IF bad # {} THEN res[Min(bad)]
                     ELSE Ok([i \in 1..Len(j.a) |-> res[i].v])
      [] ty.k = "map" ->
            \* BTreeMap: a repeated key keeps the last value
            IF j.t # "obj" THEN Err(<<>>, InvalidType)
            ELSE LET res == [i \in 1..Len(j.o) |-> Under(Key(j.o[i].k), Decode(ty.of, j.o[i].v))]
                     bad == {i \in 1..Len(j.o) : ~res[i].ok}
                     last(key) == CHOOSE i \in 1..Len(j.o) :
                                     /\ j.o[i].k = key
                                     /\ \A h \in (i + 1)..Len(j.o) : j.o[h].k # key
                 IN  IF bad # {} THEN res[Min(bad)]
                     ELSE Ok([key \in {j.o[i].k : i \in 1..Len(j.o)} |-> res[last(key)].v])
      [] ty.k = "struct" ->
            IF j.t = "obj" THEN DecodeFields(ty.fields, j.o)
            ELSE IF j.t = "arr" /\ ~ty.map_only THEN DecodeTuple(ty.fields, j.a)
            ELSE Err(<<>>, InvalidType)
      [] ty.k = "unit_enum" ->
            \* "low", or {"low": null}
            IF j.t = "str" THEN
                IF VariantIndex(ty.variants, j.s) # 0
                THEN Ok([variant |-> ty.variants[VariantIndex(ty.variants, j.s)].name])
                ELSE Err(<<>>, UnknownVariant)
            ELSE IF j.t = "obj" /\ Len(j.o) = 1 THEN
                IF VariantIndex(ty.variants, <<j.o[1].k>>) = 0 THEN Err(<<>>, UnknownVariant)
                ELSE IF j.o[1].v.t # "null" THEN Err(<<Key(j.o[1].k)>>, InvalidType)
                ELSE Ok([variant |-> ty.variants[VariantIndex(ty.variants, <<j.o[1].k>>)].name])
            ELSE Err(<<>>, InvalidType)
      [] ty.k = "tagged" -> DecodeTagged(ty, j)
      [] ty.k = "untagged" -> DecodeUntagged(ty, j, 1)
      [] ty.k = "with" -> DecodeWith(ty.helper, j)

(***************************************************************************)
(* audit.rs: the field helpers                                              *)
(***************************************************************************)
\* let s = String::deserialize(deserializer)?; Ok(s.split('>')...collect())
deserialize_module_pathMutantSkipEmpty(j) ==
    LET s == Decode(TString, j)
    IN  IF s.ok THEN Ok(SelectSeq(split(s.v, ">"), LAMBDA x : x # <<>>)) ELSE s

deserialize_module_path(j) ==
    LET s == Decode(TString, j)
    IN  IF s.ok THEN Ok(split(s.v, ">")) ELSE s

\* xs.join(">").serialize(serializer)
serialize_module_path(xs) == JStr(join(xs, ">"))

\* let xs = <Vec<String>>::deserialize(deserializer)?; each x split on '>'
deserialize_module_path_vec(j) ==
    LET xs == Decode(TVec(TString), j)
    IN  IF xs.ok THEN Ok([i \in 1..Len(xs.v) |-> split(xs.v[i], ">")]) ELSE xs

\* xxs.iter().map(|xs| xs.join(">")).collect::<Vec<String>>().serialize(serializer)
serialize_module_path_vec(xxs) ==
    JArr([i \in 1..Len(xxs) |-> JStr(join(xxs[i], ">"))])

\* String::deserialize, then OffsetDateTime::parse(.., &Rfc3339).map_err(custom)
deserialize_rfc3339(j) ==
    LET s == Decode(TString, j)
    IN  IF ~s.ok THEN s
        ELSE IF IsRfc3339(s.v) THEN Ok(OffsetDateTime_parse(s.v))
        ELSE Err(<<>>, Custom)

\* t.format(&Rfc3339)?.serialize(serializer)
serialize_rfc3339(t) == JStr(OffsetDateTime_format(t))

\* Option<String>::deserialize, then OffsetDateTime::parse on Some(s)
deserialize_optional_rfc3339(j) ==
    LET s == Decode(TOption(TString), j)
    IN  IF ~s.ok THEN s
        ELSE IF ~s.v.some THEN Ok(None)
        ELSE IF IsRfc3339(s.v.v) THEN Ok(Some(OffsetDateTime_parse(s.v.v)))
        ELSE Err(<<>>, Custom)

\* Some(t): the formatted string; None: None::<String>, which is null
serialize_optional_rfc3339MutantEmptyString(t) ==
    IF t.some THEN JStr(OffsetDateTime_format(t.v)) ELSE JStr(<<>>)

serialize_optional_rfc3339(t) ==
    IF t.some THEN JStr(OffsetDateTime_format(t.v)) ELSE JNull

\* #[serde(deserialize_with = "...")]
DecodeWith(helper, j) ==
    CASE helper = "module_path" -> deserialize_module_path(j)
      [] helper = "module_path_vec" -> deserialize_module_path_vec(j)
      [] helper = "rfc3339" -> deserialize_rfc3339(j)
      [] helper = "optional_rfc3339" -> deserialize_optional_rfc3339(j)

\* #[serde(serialize_with = "...")]
EncodeWith(helper, v) ==
    CASE helper = "module_path" -> serialize_module_path(v)
      [] helper = "module_path_vec" -> serialize_module_path_vec(v)
      [] helper = "rfc3339" -> serialize_rfc3339(v)
      [] helper = "optional_rfc3339" -> serialize_optional_rfc3339(v)

(***************************************************************************)
(* serde: encoding a value of a type as JSON                                *)
(***************************************************************************)
\* the keys the model's maps use, in the byte order BTreeMap iterates in
KeyOrder == <<"1234", "5678", "left-pad", "lodash">>

SortedKeys(S) == SelectSeq(KeyOrder, LAMBDA k : k \in S)

RECURSIVE Encode(_, _)
Encode(ty, v) ==
    CASE ty.k = "string" -> JStr(v)
      [] ty.k = "bool" -> JBool(v)
      [] ty.k \in {"u32", "u64"} -> v
      [] ty.k = "option" -> IF v.some THEN Encode(ty.of, v.v) ELSE JNull
      [] ty.k = "vec" -> JArr([i \in 1..Len(v) |-> Encode(ty.of, v[i])])
      [] ty.k = "map" ->
            LET keys == SortedKeys(DOMAIN v)
            IN  JObj([i \in 1..Len(keys) |-> Member(keys[i], Encode(ty.of, v[keys[i]]))])
      [] ty.k = "struct" ->
            JObj([f \in 1..Len(ty.fields) |->
                    Member(ty.fields[f].json, Encode(ty.fields[f].ty, v[ty.fields[f].name]))])
      [] ty.k = "unit_enum" ->
            JStr(<<(CHOOSE x \in {ty.variants[i] : i \in 1..Len(ty.variants)} :
                       x.name = v.variant).json>>)
      [] ty.k = "tagged" ->
            LET x == CHOOSE x \in {ty.variants[i] : i \in 1..Len(ty.variants)} :
                        x.name = v.variant
            IN  JObj(<<Member(ty.tag, JStr(<<x.json>>))>> \o Encode(x.ty, v.v).o)
      [] ty.k = "untagged" ->
            LET x == CHOOSE x \in {ty.variants[i] : i \in 1..Len(ty.variants)} :
                        x.name = v.variant
            IN  Encode(x.ty, v.v)
      [] ty.k = "with" -> EncodeWith(ty.helper, v)

(***************************************************************************)
(* audit.rs: the report types (field names after rename_all = "camelCase")  *)
(***************************************************************************)
\* the variants declared in alphabetical order
SeverityMutantAlphabetical ==
    TUnitEnum(<<Variant("Critical", "critical", TUnit), Variant("High", "high", TUnit),
                Variant("Info", "info", TUnit), Variant("Low", "low", TUnit),
                Variant("Moderate", "moderate", TUnit), Variant("None", "none", TUnit)>>)

\* the variants in declaration order
Severity ==
    TUnitEnum(<<Variant("None", "none", TUnit), Variant("Info", "info", TUnit),
                Variant("Low", "low", TUnit), Variant("Moderate", "moderate", TUnit),
                Variant("High", "high", TUnit), Variant("Critical", "critical", TUnit)>>)

Resolves ==
    TStruct(<<Field("id", "id", TU64),
              Field("path", "path", TWith("module_path")),
              Field("dev", "dev", TBool),
              Field("optional", "optional", TBool),
              Field("bundled", "bundled", TBool)>>, FALSE)

Action ==
    TTagged("action",
        <<Variant("Install", "install",
              TStruct(<<Field("resolves", "resolves", TVec(Resolves)),
                        Field("module", "module", TString),
                        Field("depth", "depth", TOption(TU32)),
                        Field("target", "target", TString),
                        Field("is_major", "isMajor", TBool)>>, FALSE)),
          Variant("Update", "update",
              TStruct(<<Field("resolves", "resolves", TVec(Resolves)),
                        Field("module", "module", TString),
                        Field("depth", "depth", TOption(TU32)),
                        Field("target", "target", TString)>>, FALSE)),
          Variant("Review", "review",
              TStruct(<<Field("resolves", "resolves", TVec(Resolves)),
                        Field("module", "module", TString),
                        Field("depth", "depth", TOption(TU32))>>, FALSE))>>)

Finding ==
    TStruct(<<Field("version", "version", TString),
              Field("paths", "paths", TWith("module_path_vec"))>>, FALSE)

AdvisoryFields ==
    <<Field("id", "id", TU64),
      Field("title", "title", TString),
      Field("findings", "findings", TVec(Finding)),
      Field("vulnerable_versions", "vulnerableVersions", TOption(TString)),
      Field("module_name", "moduleName", TOption(TString)),
      Field("severity", "severity", Severity),
      Field("github_advisory_id", "githubAdvisoryId", TOption(TString)),
      Field("cves", "cves", TOption(TVec(TString))),
      Field("access", "access", TString),
      Field("patched_versions", "patchedVersions", TOption(TString)),
      Field("recommendation", "recommendation", TString),
      Field("cwe", "cwe", TOption(TString)),
      Field("found_by", "foundBy", TOption(TString)),
      Field("reported_by", "reportedBy", TOption(TString)),
      Field("created", "created", TWith("rfc3339")),
      Field("updated", "updated", TWith("optional_rfc3339")),
      Field("deleted", "deleted", TWith("optional_rfc3339")),
      Field("references", "references", TOption(TString)),
      Field("npm_advisory_id", "npmAdvisoryId", TOption(TString)),
      Field("overview", "overview", TString),
      Field("url", "url", TString)>>

\* `created` declared as an optional string
AdvisoryMutantCreatedOptional ==
    TStruct([f \in 1..Len(AdvisoryFields) |->
                IF AdvisoryFields[f].name = "created"
                THEN Field("created", "created", TOption(TString))
                ELSE AdvisoryFields[f]], FALSE)

Advisory == TStruct(AdvisoryFields, FALSE)

NpmAuditDataV1 ==
    TStruct(<<Field("run_id", "runId", TOption(TString)),
              Field("actions", "actions", TVec(Action)),
              Field("advisories", "advisories", TMap(Advisory)),
              Field("muted", "muted", TOption(TVec(TString)))>>, FALSE)

VulnerabilityMutantNameFallback ==
    TUntagged(<<Variant("NameOnly", "NameOnly", TString),
                Variant("Full", "Full",
                    TStruct(<<Field("source", "source", TU64),
                              Field("name", "name", TString),
                              Field("dependency", "dependency", TString),
                              Field("title", "title", TString),
                              Field("url", "url", TString),
                              Field("severity", "severity", Severity),
                              Field("range", "range", TString)>>, TRUE)),
                Variant("NameOnly", "NameOnly",
                    TStruct(<<Field("name", "name", TString)>>, TRUE))>>)

Vulnerability ==
    TUntagged(<<Variant("NameOnly", "NameOnly", TString),
                Variant("Full", "Full",
                    TStruct(<<Field("source", "source", TU64),
                              Field("name", "name", TString),
                              Field("dependency", "dependency", TString),
                              Field("title", "title", TString),
                              Field("url", "url", TString),
                              Field("severity", "severity", Severity),
                              Field("range", "range", TString)>>, TRUE))>>)

FixMutantOptionalMajor ==
    TUntagged(<<Variant("BoolOnly", "BoolOnly", TBool),
                Variant("Full", "Full",
                    TStruct(<<Field("name", "name", TString),
                              Field("version", "version", TString),
                              Field("is_sem_ver_major", "isSemVerMajor", TOption(TBool))>>, TRUE))>>)

Fix ==
    TUntagged(<<Variant("BoolOnly", "BoolOnly", TBool),
                Variant("Full", "Full",
                    TStruct(<<Field("name", "name", TString),
                              Field("version", "version", TString),
                              Field("is_sem_ver_major", "isSemVerMajor", TBool)>>, TRUE))>>)

VulnerablePackage ==
    TStruct(<<Field("name", "name", TString),
              Field("severity", "severity", Severity),
              Field("is_direct", "isDirect", TBool),
              Field("via", "via", TVec(Vulnerability)),
              Field("effects", "effects", TVec(TString)),
              Field("range", "range", TString),
              Field("nodes", "nodes", TVec(TString)),
              Field("fix_available", "fixAvailable", Fix)>>, FALSE)

VulnerabilityCountsV2 ==
    TStruct(<<Field("total", "total", TU32),
              Field("info", "info", TU32),
              Field("low", "low", TU32),
              Field("moderate", "moderate", TU32),
              Field("high", "high", TU32),
              Field("critical", "critical", TU32)>>, FALSE)

DependencyCounts ==
    TStruct(<<Field("total", "total", TU32),
              Field("prod", "prod", TU32),
              Field("dev", "dev", TU32),
              Field("optional", "optional", TU32),
              Field("peer", "peer", TU32),
              Field("peer_optional", "peerOptional", TU32)>>, FALSE)

MetadataV2 ==
    TStruct(<<Field("vulnerabilities", "vulnerabilities", VulnerabilityCountsV2),
              Field("dependencies", "dependencies", DependencyCounts)>>, FALSE)

NpmAuditDataV2 ==
    TStruct(<<Field("audit_report_version", "auditReportVersion", TOption(TU32)),
              Field("vulnerabilities", "vulnerabilities", TMap(VulnerablePackage)),
              Field("metadata", "metadata", MetadataV2)>>, FALSE)

\* the variants tried in the opposite order
NpmAuditDataMutantVersion2First ==
    TUntagged(<<Variant("Version2", "Version2", NpmAuditDataV2),
                Variant("Version1", "Version1", NpmAuditDataV1)>>)

\* #[serde(untagged)]: Version1(NpmAuditDataV1), then Version2(NpmAuditDataV2)
NpmAuditData ==
    TUntagged(<<Variant("Version1", "Version1", NpmAuditDataV1),
                Variant("Version2", "Version2", NpmAuditDataV2)>>)

(***************************************************************************)
(* outdated.rs: the report types                                            *)
(***************************************************************************)
PackageStatus ==
    TStruct(<<Field("wanted", "wanted", TString),
              Field("latest", "latest", TString),
              Field("location", "location", TOption(TString)),
              Field("dependent", "dependent", TString),
              Field("package_type", "type", TString),
              Field("homepage", "homepage", TString)>>, FALSE)

\* a newtype struct: it decodes and encodes as the map it wraps
NpmOutdatedData == TMap(PackageStatus)

(***************************************************************************)
(* Documents the reports are decoded from                                   *)
(***************************************************************************)
\* a string of one token
S(x) == JStr(<<x>>)

ResolvesDoc ==
    JObj(<<Member("id", JNum(1234)),
           Member("path", JStr(<<"app", ">", "lib-a", ">", "lodash">>)),
           Member("dev", JBool(FALSE)),
           Member("optional", JBool(FALSE)),
           Member("bundled", JBool(TRUE))>>)

InstallDoc ==
    JObj(<<Member("action", S("install")),
           Member("resolves", JArr(<<ResolvesDoc>>)),
           Member("module", S("lodash")),
           Member("depth", JNum(2)),
           Member("target", S("4.17.21")),
           Member("isMajor", JBool(FALSE))>>)

ReviewDoc ==
    JObj(<<Member("module", S("left-pad")),
           Member("resolves", JArr(<<>>)),
           Member("depth", JNull),
           Member("action", S("review"))>>)

FindingDoc ==
    JObj(<<Member("version", S("4.17.20")),
           Member("paths", JArr(<<JStr(<<"app", ">", "lib-a", ">", "lodash">>), S("lodash")>>))>>)

\* an advisory holding every member the Advisory type declares and no other
AdvisoryDoc ==
    JObj(<<Member("findings", JArr(<<FindingDoc>>)),
           Member("id", JNum(1234)),
           Member("created", JStr(<<"2021-03-01", "T", "00:30:00", ".5", "Z">>)),
           Member("updated", JStr(<<"2021-03-02", "T", "23:30:00", "+01:00">>)),
           Member("deleted", JNull),
           Member("title", S("Prototype Pollution")),
           Member("foundBy", S("alice")),
           Member("reportedBy", JNull),
           Member("moduleName", S("lodash")),
           Member("cves", JArr(<<S("CVE-2021-0001")>>)),
           Member("vulnerableVersions", S("<4.17.21")),
           Member("patchedVersions", S(">=4.17.21")),
           Member("overview", S("overview")),
           Member("recommendation", S("upgrade")),
           Member("references", S("references")),
           Member("access", S("public")),
           Member("severity", S("high")),
           Member("cwe", S("CWE-471")),
           Member("githubAdvisoryId", S("GHSA-1")),
           Member("npmAdvisoryId", JNull),
           Member("url", S("https://npmjs.com/advisories/1234"))>>)

\* a report of the first format holding every declared member and no other
AuditDocV1 ==
    JObj(<<Member("actions", JArr(<<InstallDoc, ReviewDoc>>)),
           Member("advisories", JObj(<<Member("1234", AdvisoryDoc)>>)),
           Member("muted", JArr(<<>>)),
           Member("runId", S("8a7c1f"))>>)

(***************************************************************************)
(* Variations of a document: edits applied to it                            *)
(***************************************************************************)
\* replace the value at `at`
Set(at, v) == [at |-> at, op |-> "set", k |-> "", v |-> v]

\* remove every member named k of the object at `at`
Remove(at, k) == [at |-> at, op |-> "remove", k |-> k, v |-> JNull]

\* append the member k: v to the object at `at`
Add(at, k, v) == [at |-> at, op |-> "add", k |-> k, v |-> v]

\* the document with one edit applied; an edit whose place does not exist
\* changes nothing
RECURSIVE ApplyAt(_, _, _)
ApplyAt(j, path, e) ==
    IF path = <<>> THEN
        CASE e.op = "set" -> e.v
          [] e.op = "remove" ->
                IF j.t = "obj" THEN JObj(SelectSeq(j.o, LAMBDA m : m.k # e.k)) ELSE j
          [] e.op = "add" ->
                IF j.t = "obj" THEN JObj(Append(j.o, Member(e.k, e.v))) ELSE j
    ELSE IF Head(path).seg = "key" THEN
        IF j.t # "obj" THEN j
        ELSE JObj([i \in 1..Len(j.o) |->
                     IF j.o[i].k = Head(path).key
                     THEN Member(j.o[i].k, ApplyAt(j.o[i].v, Tail(path), e))
                     ELSE j.o[i]])
    ELSE
        IF j.t # "arr" THEN j
        ELSE JArr([i \in 1..Len(j.a) |->
                     IF i = Head(path).index + 1
                     THEN ApplyAt(j.a[i], Tail(path), e)
                     ELSE j.a[i]])

\* the edits edits[i], i in I, applied in the order of the list
RECURSIVE ApplyAll(_, _, _)
ApplyAll(j, edits, I) ==
    IF I = {} THEN j
    ELSE LET i == Min(I)
         IN  ApplyAll(ApplyAt(j, edits[i].at, edits[i]), edits, I \ {i})

\* the sets of at most n numbers out of 1..m
RECURSIVE Choices(_, _)
Choices(m, n) ==
    IF m = 0 \/ n = 0 THEN {{}}
    ELSE Choices(m - 1, n) \cup {I \cup {m} : I \in Choices(m - 1, n - 1)}

Variations(j, edits, n) == {ApplyAll(j, edits, I) : I \in Choices(Len(edits), n)}

\* the value at `path` of a document; JNull when there is none
RECURSIVE ValueAt(_, _)
ValueAt(j, path) ==
    IF path = <<>> THEN j
    ELSE IF Head(path).seg = "key" THEN
        IF j.t = "obj" /\ \E i \in 1..Len(j.o) : j.o[i].k = Head(path).key
        THEN ValueAt(j.o[CHOOSE i \in 1..Len(j.o) : j.o[i].k = Head(path).key].v, Tail(path))
        ELSE JNull
    ELSE IF j.t = "arr" /\ Head(path).index < Len(j.a)
         THEN ValueAt(j.a[Head(path).index + 1], Tail(path))
         ELSE JNull

AtAdvisory == <<Key("advisories"), Key("1234")>>

AtFinding == AtAdvisory \o <<Key("findings"), Index(0)>>

AtInstall == <<Key("actions"), Index(0)>>

AtResolves == AtInstall \o <<Key("resolves"), Index(0)>>

\* how documents of the first report format vary (npm 6 itself prints a
\* `metadata` member in the report and in every advisory)
EditsV1 ==
    <<Remove(<<>>, "runId"),
      Remove(<<>>, "muted"),
      Add(<<>>, "metadata", JObj(<<Member("totalDependencies", JNum(10))>>)),
      Remove(<<>>, "actions"),
      Set(<<Key("advisories")>>, JArr(<<>>)),
      Add(<<Key("advisories")>>, "5678", AdvisoryDoc),
      Add(<<Key("advisories")>>, "1234", ApplyAt(AdvisoryDoc, <<Key("id")>>, Set(<<>>, JBigNum))),
      Remove(AtAdvisory, "created"),
      Remove(AtAdvisory, "updated"),
      Remove(AtAdvisory, "cves"),
      Remove(AtAdvisory, "id"),
      Add(AtAdvisory, "metadata", JNull),
      Add(AtAdvisory, "found_by", JObj(<<Member("name", S("alice"))>>)),
      Remove(AtAdvisory, "foundBy"),
      Add(AtAdvisory, "id", JNum(1234)),
      Set(AtAdvisory \o <<Key("created")>>, JStr(<<"2021-03-01", "t", "00:30:00", ".50", "+00:00">>)),
      Set(AtAdvisory \o <<Key("created")>>, S("yesterday")),
      Set(AtAdvisory \o <<Key("created")>>, JNull),
      Set(AtAdvisory \o <<Key("updated")>>, JNull),
      Set(AtAdvisory \o <<Key("deleted")>>, JStr(<<"2021-03-02", "T", "00:30:00", ".0", "z">>)),
      Set(AtAdvisory \o <<Key("severity")>>, S("urgent")),
      Set(AtAdvisory \o <<Key("severity")>>, JObj(<<Member("high", JNull)>>)),
      Set(AtAdvisory \o <<Key("id")>>, JNum(-1)),
      Set(AtAdvisory \o <<Key("id")>>, JFloat),
      Set(AtFinding, JArr(<<S("4.17.20"), JArr(<<S("lodash")>>)>>)),
      Set(AtFinding \o <<Key("paths")>>, S("lodash")),
      Set(AtFinding \o <<Key("paths"), Index(0)>>, JStr(<<>>)),
      Set(AtFinding \o <<Key("paths"), Index(1)>>, JStr(<<">", "lodash", ">">>)),
      Set(AtInstall \o <<Key("action")>>, S("update")),
      Set(AtInstall \o <<Key("action")>>, S("uninstall")),
      Remove(AtInstall, "isMajor"),
      Remove(AtInstall, "depth"),
      Remove(AtInstall, "action"),
      Set(AtInstall \o <<Key("depth")>>, JBigNum),
      Set(<<Key("actions"), Index(1)>>,
          JArr(<<S("review"), JArr(<<>>), S("left-pad"), JNull>>)),
      Set(<<Key("actions"), Index(1), Key("action")>>, S("update")),
      Set(AtResolves \o <<Key("path")>>, JNum(7)),
      Set(AtResolves \o <<Key("path")>>, JStr(<<"app", ">", ">", "lodash">>)),
      Remove(AtResolves, "dev")>>

ViaFullDoc ==
    JObj(<<Member("source", JNum(1673)),
           Member("name", S("lodash")),
           Member("dependency", S("lodash")),
           Member("title", S("Prototype Pollution")),
           Member("url", S("https://github.com/advisories/GHSA-1")),
           Member("severity", S("high")),
           Member("range", S("<4.17.21"))>>)

FixFullDoc ==
    JObj(<<Member("name", S("foo")),
           Member("version", S("2.0.0")),
           Member("isSemVerMajor", JBool(FALSE))>>)

VulnerablePackageDoc ==
    JObj(<<Member("name", S("lodash")),
           Member("severity", S("high")),
           Member("isDirect", JBool(TRUE)),
           Member("via", JArr(<<S("left-pad"), ViaFullDoc>>)),
           Member("effects", JArr(<<>>)),
           Member("range", S("<4.17.21")),
           Member("nodes", JArr(<<S("node_modules/lodash")>>)),
           Member("fixAvailable", FixFullDoc)>>)

MetadataV2Doc ==
    JObj(<<Member("vulnerabilities",
               JObj(<<Member("info", JNum(0)), Member("low", JNum(0)),
                      Member("moderate", JNum(0)), Member("high", JNum(1)),
                      Member("critical", JNum(0)), Member("total", JNum(1))>>)),
           Member("dependencies",
               JObj(<<Member("prod", JNum(7)), Member("dev", JNum(3)),
                      Member("optional", JNum(0)), Member("peer", JNum(0)),
                      Member("peerOptional", JNum(0)), Member("total", JNum(10))>>))>>)

\* what `npm audit --json` of npm 7 and later prints
AuditDocV2 ==
    JObj(<<Member("auditReportVersion", JNum(2)),
           Member("vulnerabilities", JObj(<<Member("lodash", VulnerablePackageDoc)>>)),
           Member("metadata", MetadataV2Doc)>>)

\* a document that has the members of both report formats
AuditDocBoth == JObj(AuditDocV1.o \o AuditDocV2.o)

\* how documents with the members of both report formats vary
EditsBoth ==
    <<Remove(<<>>, "actions"),
      Remove(<<>>, "advisories"),
      Remove(<<>>, "vulnerabilities"),
      Remove(<<>>, "metadata"),
      Remove(<<>>, "runId"),
      Set(<<Key("runId")>>, JNum(7)),
      Set(<<Key("muted")>>, S("nothing")),
      Set(<<Key("auditReportVersion")>>, S("2")),
      Set(<<Key("actions")>>, JNum(7)),
      Set(<<Key("vulnerabilities")>>, JArr(<<>>)),
      Set(<<Key("metadata")>>, JNull),
      Remove(AtAdvisory, "created"),
      Add(<<>>, "actions", JArr(<<>>)),
      Add(<<>>, "vulnerabilities", JObj(<<>>))>>

\* a report of the first format written as the array of its fields
AuditDocV1Array == JArr(<<JNull, JArr(<<ReviewDoc>>), JObj(<<>>), JNull>>)

\* how `via` entries vary
EditsVia ==
    <<Remove(<<>>, "source"),
      Remove(<<>>, "name"),
      Remove(<<>>, "dependency"),
      Remove(<<>>, "title"),
      Remove(<<>>, "url"),
      Remove(<<>>, "severity"),
      Remove(<<>>, "range"),
      Set(<<Key("source")>>, S("1673")),
      Set(<<Key("source")>>, JNum(-1)),
      Set(<<Key("source")>>, JBigNum),
      Set(<<Key("name")>>, JNull),
      Set(<<Key("severity")>>, S("urgent")),
      Set(<<Key("severity")>>, JObj(<<Member("low", JNull)>>)),
      Add(<<>>, "cwe", JArr(<<S("CWE-471")>>)),
      Add(<<>>, "name", S("lodash"))>>

\* values that are no object
Scalars ==
    {JNull, JBool(TRUE), JBool(FALSE), JNum(0), JNum(-1), JBigNum, JFloat,
     S("lodash"), S("true"), JStr(<<>>), JArr(<<>>), JObj(<<>>)}

\* how `fixAvailable` values vary
EditsFix ==
    <<Remove(<<>>, "name"),
      Remove(<<>>, "version"),
      Remove(<<>>, "isSemVerMajor"),
      Set(<<Key("isSemVerMajor")>>, JBool(TRUE)),
      Set(<<Key("isSemVerMajor")>>, S("false")),
      Set(<<Key("isSemVerMajor")>>, JNull),
      Set(<<Key("name")>>, JBool(TRUE)),
      Set(<<Key("version")>>, JNum(2)),
      Add(<<>>, "is_sem_ver_major", JBool(TRUE)),
      Add(<<>>, "version", S("2.0.0")),
      Add(<<>>, "extra", JNull)>>

AtPackage == <<Key("vulnerabilities"), Key("lodash")>>

\* how documents of the second report format vary
EditsV2 ==
    <<Remove(<<>>, "auditReportVersion"),
      Remove(<<>>, "metadata"),
      Remove(<<>>, "vulnerabilities"),
      Set(<<Key("auditReportVersion")>>, S("2")),
      Add(<<>>, "actions", JArr(<<>>)),
      Add(<<>>, "advisories", JObj(<<>>)),
      Set(AtPackage \o <<Key("fixAvailable")>>, JBool(TRUE)),
      Set(AtPackage \o <<Key("fixAvailable")>>, JNull),
      Remove(AtPackage \o <<Key("fixAvailable")>>, "version"),
      Remove(AtPackage \o <<Key("via"), Index(1)>>, "title"),
      Set(AtPackage \o <<Key("via"), Index(0)>>, JNum(7)),
      Remove(AtPackage, "fixAvailable"),
      Set(<<Key("metadata"), Key("dependencies"), Key("peer")>>, JBigNum),
      Remove(<<Key("metadata"), Key("vulnerabilities")>>, "total")>>

PackageStatusDoc ==
    JObj(<<Member("current", S("4.17.20")),
           Member("wanted", S("4.17.21")),
           Member("latest", S("5.0.0")),
           Member("dependent", S("app")),
           Member("location", S("node_modules/lodash")),
           Member("type", S("dependencies")),
           Member("homepage", S("https://lodash.com/"))>>)

\* what `npm outdated --json --long` prints
OutdatedDoc ==
    JObj(<<Member("lodash", PackageStatusDoc),
           Member("left-pad", ApplyAt(PackageStatusDoc, <<>>, Remove(<<>>, "current")))>>)

\* how package entries of the freshness report vary
EditsPackageStatus ==
    <<Remove(<<>>, "location"),
      Remove(<<>>, "dependent"),
      Remove(<<>>, "homepage"),
      Remove(<<>>, "wanted"),
      Remove(<<>>, "latest"),
      Remove(<<>>, "type"),
      Set(<<Key("location")>>, JNull),
      Set(<<Key("homepage")>>, JNull),
      Set(<<Key("dependent")>>, JNull),
      Set(<<Key("latest")>>, JNum(5)),
      Add(<<>>, "package_type", S("dependencies")),
      Add(<<>>, "wanted", S("4.17.21"))>>

(***************************************************************************)
(* Process output                                                           *)
(***************************************************************************)
\* bytes that are not valid UTF-8
InvalidUtf8 == [utf8 |-> FALSE, empty |-> FALSE]

\* no bytes at all
NoBytes == [utf8 |-> TRUE, empty |-> TRUE]

\* text that is not stderr-empty and whose content does not matter
SomeText == [utf8 |-> TRUE, empty |-> FALSE]

\* the characters s
Chars(s) == [utf8 |-> TRUE, empty |-> s = <<>>, text |-> s]

\* text that holds no JSON value (nothing, or an error message)
NotJson == [utf8 |-> TRUE, empty |-> FALSE, json |-> FALSE]

\* the text of the JSON value doc, followed by more text when trailing
JsonText(doc, trailing) ==
    [utf8 |-> TRUE, empty |-> FALSE, json |-> TRUE, doc |-> doc, trailing |-> trailing]

Syntax == [error |-> "syntax"]

TrailingCharacters == [error |-> "trailing characters"]

\* the Result a function returned
RetOk(requirement, data) == [ok |-> TRUE, requirement |-> requirement, data |-> data]

RetErr(error, detail) == [ok |-> FALSE, error |-> error, detail |-> detail]

(***************************************************************************)
(* audit()                                                                  *)
(***************************************************************************)
\* what `npm --version` is taken to print
VersionSamples ==
    {<<"6", ".", "1", "4", ".", "8", "\n">>,
     <<"7", ".", "0", ".", "0", "\n">>,
     <<"9", ".", "5", ".", "1", "\n">>,
     <<"1", "0", ".", "2", ".", "4", "\n">>,
     <<>>,
     <<"n", "o", "t", "-", "a", "-", "v", "e", "r", "s", "i", "o", "n">>}

\* the level up to which the installed tracing subscriber is enabled
TracingLevels == {"off", "warn", "debug"}

Init ==
    /\ pc = "start"
    /\ tracing \in TracingLevels
    /\ version_output = Unset
    /\ version = Unset
    /\ parsed = Unset
    /\ report_format = 0
    /\ output = Unset
    /\ update_requirement = "unassigned"
    /\ ret = Unset
    /\ json_in = Unset
    /\ decoded = Unset
    /\ encoded = Unset

\* let version_output = version_cmd.output()?;
\* let version = from_utf8(&version_output.stdout)?.trim();
RunVersionCmd(outputs) ==
    /\ pc = "start"
    /\ \/ /\ ret' = RetErr("StdIoError", Unset)
          /\ pc' = "done"
          /\ UNCHANGED <<version_output, version>>
       \/ /\ version_output' = InvalidUtf8
          /\ ret' = RetErr("Utf8Error", Unset)
          /\ pc' = "done"
          /\ UNCHANGED version
       \/ \E o \in outputs :
             /\ version_output' = Chars(o)
             /\ version' = trim(o)
             /\ pc' = "version"
             /\ UNCHANGED ret
    /\ UNCHANGED <<parsed, report_format, output, tracing, update_requirement,
                   json_in, decoded, encoded>>

\* let report_format = match versions::Versioning::new(version) { ... };
DetectFormat ==
    /\ pc = "version"
    /\ \E p \in Versioning_new(version) :
          /\ parsed' = p
          /\ report_format' = ReportFormat(p)
    /\ pc' = "report_format"
    /\ UNCHANGED <<version_output, version, output, tracing, update_requirement,
                   ret, json_in, decoded, encoded>>

\* the documents `npm audit --json` is taken to print: each report format and
\* its variations, and every variation of a format 1 report whose advisory
\* has no `created`
RemoveCreated == CHOOSE i \in 1..Len(EditsV1) : EditsV1[i] = Remove(AtAdvisory, "created")

AuditDocs ==
    Variations(AuditDocV1, EditsV1, 1)
    \cup {ApplyAll(AuditDocV1, EditsV1, {i, RemoveCreated}) : i \in 1..Len(EditsV1)}
    \cup Variations(AuditDocV2, EditsV2, 1)
    \cup {AuditDocBoth, JObj(<<>>), JArr(<<>>)}

AuditStdouts ==
    {InvalidUtf8, NotJson, JsonText(AuditDocV1, TRUE), JsonText(AuditDocV2, TRUE)}
    \cup {JsonText(d, FALSE) : d \in AuditDocs}

Stderrs == {NoBytes, SomeText, InvalidUtf8}

\* let output = cmd.output()?;
RunAuditCmd ==
    /\ pc = "report_format"
    /\ \/ /\ ret' = RetErr("StdIoError", Unset)
          /\ pc' = "done"
          /\ UNCHANGED output
       \/ \E success \in BOOLEAN, stdout \in AuditStdouts, stderr \in Stderrs :
             /\ output' = [success |-> success, stdout |-> stdout, stderr |-> stderr]
             /\ pc' = "output"
             /\ UNCHANGED ret
    /\ UNCHANGED <<version_output, version, parsed, report_format, tracing,
                   update_requirement, json_in, decoded, encoded>>

\* if !output.status.success() { warn!(..); debug!(.., from_utf8(&output.stdout)?);
\*     if !output.stderr.is_empty() { warn!(.., from_utf8(&output.stderr)?); } }
\* The arguments of an event macro are evaluated only when its level is enabled.
\* The result is the error the block returns with, or Unset when it falls through.
LogUnsuccessfulMutantStderrIsError(out, level) ==
    IF out.success THEN Unset
    ELSE IF level = "debug" /\ ~out.stdout.utf8 THEN RetErr("Utf8Error", Unset)
    ELSE IF ~out.stderr.empty THEN RetErr("Utf8Error", Unset)
    ELSE Unset

LogUnsuccessful(out, level) ==
    IF out.success THEN Unset
    ELSE IF level = "debug" /\ ~out.stdout.utf8 THEN RetErr("Utf8Error", Unset)
    ELSE IF ~out.stderr.empty /\ level \in {"warn", "debug"} /\ ~out.stderr.utf8
         THEN RetErr("Utf8Error", Unset)
    ELSE Unset

LogAuditExit ==
    /\ pc = "output"
    /\ LET r == LogUnsuccessful(output, tracing)
       IN  IF r = Unset
           THEN pc' = "logged" /\ UNCHANGED ret
           ELSE pc' = "done" /\ ret' = r
    /\ UNCHANGED <<version_output, version, parsed, report_format, output, tracing,
                   update_requirement, json_in, decoded, encoded>>

\* let update_requirement = if output.status.success() { UpToDate } else { UpdateRequired };
AuditUpdateRequirementMutantSwapped(success) ==
    IF success THEN "UpdateRequired" ELSE "UpToDate"

AuditUpdateRequirement(success) ==
    IF success THEN "UpToDate" ELSE "UpdateRequired"

\* serde_path_to_error::deserialize::<_, T>(jd): the first JSON value of the
\* text, decoded as T; what follows the value is not looked at
DeserializeWithPath(ty, text) ==
    IF ~text.json THEN Err(<<>>, Syntax) ELSE Decode(ty, text.doc)

\* let data: NpmAuditData = match report_format { 1 => Version1(..V1..?), 2 => Version2(..V2..?), .. };
SelectedSchemaMutantFallback(format, text) ==
    LET v1 == DeserializeWithPath(NpmAuditDataV1, text)
        v2 == DeserializeWithPath(NpmAuditDataV2, text)
    IN  IF format = 1
        THEN IF v1.ok THEN Ok([variant |-> "Version1", v |-> v1.v])
             ELSE IF v2.ok THEN Ok([variant |-> "Version2", v |-> v2.v]) ELSE v1
        ELSE IF v2.ok THEN Ok([variant |-> "Version2", v |-> v2.v])
             ELSE IF v1.ok THEN Ok([variant |-> "Version1", v |-> v1.v]) ELSE v2

SelectedSchema(format, text) ==
    IF format = 1
    THEN LET r == DeserializeWithPath(NpmAuditDataV1, text)
         IN  IF r.ok THEN Ok([variant |-> "Version1", v |-> r.v]) ELSE r
    ELSE LET r == DeserializeWithPath(NpmAuditDataV2, text)
         IN  IF r.ok THEN Ok([variant |-> "Version2", v |-> r.v]) ELSE r

\* from `let update_requirement` to `Ok((update_requirement, data))`
DecodeAuditReport ==
    /\ pc = "logged"
    /\ update_requirement' = AuditUpdateRequirement(output.success)
    /\ IF ~output.stdout.utf8
       THEN ret' = RetErr("Utf8Error", Unset)
       ELSE LET data == SelectedSchema(report_format, output.stdout)
            IN  IF data.ok
                THEN ret' = RetOk(update_requirement', data.v)
                ELSE ret' = RetErr("SerdePathError", data)
    /\ pc' = "done"
    /\ UNCHANGED <<version_output, version, parsed, report_format, output, tracing,
                   json_in, decoded, encoded>>

Next ==
    \/ RunVersionCmd(VersionSamples)
    \/ DetectFormat
    \/ RunAuditCmd
    \/ LogAuditExit
    \/ DecodeAuditReport

Spec == Init /\ [][Next]_vars

(***************************************************************************)
(* The version detector of audit() over every short version string          *)
(***************************************************************************)
VersionChars == {"0", "6", "7", ".", "!"}

VersionOutputs ==
    VersionSamples
    \cup {lead \o body \o trail : lead \in {<<>>, <<" ">>}, trail \in {<<>>, <<"\n">>},
                                  body \in SeqsUpTo(VersionChars, MaxVersionLen)}

NextDetector == RunVersionCmd(VersionOutputs) \/ DetectFormat

InitDetector == Init /\ tracing = "debug"

SpecDetector == InitDetector /\ [][NextDetector]_vars

(***************************************************************************)
(* Properties of audit()                                                    *)
(***************************************************************************)
\* the report type the detected format selects
Selected == IF report_format = 1 THEN NpmAuditDataV1 ELSE NpmAuditDataV2

\* audit() ran to its end and got as far as decoding text
Decoded == pc = "done" /\ update_requirement # "unassigned" /\ output.stdout.utf8

\* the text on stdout is a JSON value of the selected report type
MatchesSelected == output.stdout.json /\ Decode(Selected, output.stdout.doc).ok

C2_SelectedSchemaIsAuthoritative ==
    Decoded =>
        /\ ret.ok =>
              /\ ret.data.variant = "Version1" <=> report_format = 1
              /\ ret.data.variant = "Version2" <=> report_format = 2
              /\ MatchesSelected
              /\ ret.data.v = Decode(Selected, output.stdout.doc).v
        /\ ~MatchesSelected => ~ret.ok /\ ret.error = "SerdePathError"

C2_Witness ==
    /\ Decoded
    /\ report_format = 1
    /\ output.stdout = JsonText(AuditDocV2, FALSE)
    /\ Decode(NpmAuditDataV2, output.stdout.doc).ok
    /\ ~ret.ok
    /\ ret.error = "SerdePathError"

\* C3: the outcome audit() returns is a function of the exit status alone:
\* UpToDate after a successful exit, UpdateRequired after an unsuccessful one,
\* whatever the version, the payload and stderr were.
C3_OutcomeFromExitStatus ==
    pc = "done" /\ ret.ok =>
        ret.requirement = IF output.success THEN "UpToDate" ELSE "UpdateRequired"

C3_Witness ==
    /\ pc = "done"
    /\ ret.ok
    /\ ~output.success
    /\ output.stderr = SomeText
    /\ output.stdout = JsonText(AuditDocV2, TRUE)
    /\ ret.requirement = "UpdateRequired"

\* C4, as claimed: when the tool was launched and stdout is valid UTF-8 JSON
\* of the selected type, audit() returns the decoded report (with
\* UpdateRequired after an unsuccessful exit), whatever is on stderr.
C4_AnyStderr ==
    pc = "done" /\ output # Unset /\ output.stdout.utf8 /\ MatchesSelected =>
        /\ ret.ok
        /\ ret.data.v = Decode(Selected, output.stdout.doc).v
        /\ ~output.success => ret.requirement = "UpdateRequired"

\* C4, amended: when the tool was launched, stdout is valid UTF-8 JSON of the
\* selected type and stderr is empty or valid UTF-8, audit() returns the
\* decoded report (with UpdateRequired after an unsuccessful exit); after an
\* unsuccessful exit with warn-level events enabled, a stderr that is not
\* empty and not valid UTF-8 is a Utf8Error.
C4_Utf8Stderr ==
    pc = "done" /\ output # Unset /\ output.stdout.utf8 /\ MatchesSelected =>
        /\ output.stderr.empty \/ output.stderr.utf8 =>
              /\ ret.ok
              /\ ret.data.v = Decode(Selected, output.stdout.doc).v
              /\ ~output.success => ret.requirement = "UpdateRequired"
        /\ ~output.success /\ ~output.stderr.utf8 /\ tracing # "off" =>
              ~ret.ok /\ ret.error = "Utf8Error"

C4_Witness ==
    /\ pc = "done"
    /\ ret.ok
    /\ ~output.success
    /\ output.stderr = SomeText
    /\ tracing = "warn"
    /\ ret.requirement = "UpdateRequired"

\* the advisory "1234" of the payload is an object without `created`
LacksCreated ==
    /\ output.stdout.json
    /\ ValueAt(output.stdout.doc, AtAdvisory).t = "obj"
    /\ \A i \in 1..Len(ValueAt(output.stdout.doc, AtAdvisory).o) :
          ValueAt(output.stdout.doc, AtAdvisory).o[i].k # "created"

\* ... and with a `created` added the payload is a format 1 report
OnlyLacksCreated ==
    /\ LacksCreated
    /\ Decode(NpmAuditDataV1,
              ApplyAt(output.stdout.doc, AtAdvisory,
                      Add(<<>>, "created", JStr(<<"2021-03-01", "T", "00:30:00", "Z">>)))).ok

InPath(path, key) == \E i \in 1..Len(path) : path[i] = Key(key)

\* C7, as claimed: a format 1 payload whose advisory lacks `created` (and has
\* no other fault) is a decode failure whose path includes the advisory's key
\* and `created`.
C7_PathNamesCreated ==
    Decoded /\ report_format = 1 /\ OnlyLacksCreated =>
        /\ ~ret.ok
        /\ ret.error = "SerdePathError"
        /\ InPath(ret.detail.path, "1234")
        /\ InPath(ret.detail.path, "created")

\* C7, amended: a format 1 payload whose advisory lacks `created` is a decode
\* failure (no report); when that is its only fault, the path of the failure
\* is advisories.<key>, ending at the advisory, and it is the message of the
\* failure that names the missing field `created`.
C7_PathEndsAtAdvisory ==
    Decoded /\ report_format = 1 /\ LacksCreated =>
        /\ ~ret.ok
        /\ ret.error = "SerdePathError"
        /\ OnlyLacksCreated =>
              /\ ret.detail.path = <<Key("advisories"), Key("1234")>>
              /\ ret.detail.msg = MissingField("created")

C7_Witness ==
    /\ Decoded
    /\ report_format = 1
    /\ OnlyLacksCreated
    /\ Len(output.stdout.doc.o[2].v.o) = 2
    /\ ret.detail.path = <<Key("advisories"), Key("1234")>>


(***************************************************************************)
(* The codecs on their own: a JSON value is decoded as a type, and the      *)
(* decoded value is encoded again                                           *)
(***************************************************************************)
\* how many edits a varied document has at most
MaxEdits == 2

\* longest dependency path string, in characters
MaxPathLen == 4

\* longest array of dependency path strings
MaxPaths == 2

PathChars == {"a", "-", ">"}

AppLibPath == <<"app", ">", "lib-a", ">", "lib-b">>

PathStrings == SeqsUpTo(PathChars, MaxPathLen) \cup {AppLibPath}

PathArrays ==
    SeqsUpTo({JStr(s) : s \in SeqsUpTo(PathChars, 2)} \cup {JStr(AppLibPath), JNum(7)}, MaxPaths)

TypeNamed(name) ==
    CASE name = "NpmAuditDataV1" -> NpmAuditDataV1
      [] name = "NpmAuditData" -> NpmAuditData
      [] name = "Vulnerability" -> Vulnerability
      [] name = "Fix" -> Fix
      [] name = "module_path" -> TWith("module_path")
      [] name = "module_path_vec" -> TWith("module_path_vec")

Job(name, j) == [ty |-> name, j |-> j]

CodecJobs ==
    {Job("NpmAuditDataV1", j) : j \in Variations(AuditDocV1, EditsV1, MaxEdits)}
    \cup {Job("NpmAuditData", j) :
             j \in Variations(AuditDocBoth, EditsBoth, MaxEdits)
                   \cup {AuditDocV1, AuditDocV2, AuditDocV1Array} \cup Scalars}
    \cup {Job("Vulnerability", j) : j \in Variations(ViaFullDoc, EditsVia, MaxEdits) \cup Scalars}
    \cup {Job("Fix", j) : j \in Variations(FixFullDoc, EditsFix, MaxEdits) \cup Scalars}
    \cup {Job("module_path", j) : j \in {JStr(s) : s \in PathStrings} \cup Scalars}
    \cup {Job("module_path_vec", j) : j \in {JArr(a) : a \in PathArrays} \cup Scalars}

InitCodec ==
    /\ pc = "codec"
    /\ json_in \in CodecJobs
    /\ decoded = Unset
    /\ encoded = Unset
    /\ tracing = "off"
    /\ version_output = Unset
    /\ version = Unset
    /\ parsed = Unset
    /\ report_format = 0
    /\ output = Unset
    /\ update_requirement = "unassigned"
    /\ ret = Unset

\* T::deserialize(deserializer), as derived or as the field's deserialize_with
Deserialize ==
    /\ pc = "codec"
    /\ decoded' = Decode(TypeNamed(json_in.ty), json_in.j)
    /\ pc' = IF decoded'.ok THEN "decoded" ELSE "done"
    /\ UNCHANGED <<version_output, version, parsed, report_format, output, tracing,
                   update_requirement, ret, json_in, encoded>>

\* value.serialize(serializer), as derived or as the field's serialize_with
Serialize ==
    /\ pc = "decoded"
    /\ encoded' = Encode(TypeNamed(json_in.ty), decoded.v)
    /\ pc' = "done"
    /\ UNCHANGED <<version_output, version, parsed, report_format, output, tracing,
                   update_requirement, ret, json_in, decoded>>

NextCodec == Deserialize \/ Serialize

SpecCodec == InitCodec /\ [][NextCodec]_vars

(***************************************************************************)
(* Properties of the codecs                                                 *)
(***************************************************************************)
\* how often the character c occurs in the string s
Count(s, c) == Cardinality({i \in 1..Len(s) : s[i] = c})

\* xs is what splitting s at every `>` gives: one substring more than s has
\* `>`, none holding a `>`, which with a `>` between neighbours make up s
RECURSIVE Interleave(_)
Interleave(xs) ==
    IF Len(xs) = 1 THEN xs[1] ELSE xs[1] \o <<">">> \o Interleave(Tail(xs))

IsSplitOf(xs, s) ==
    /\ xs # <<>>
    /\ Len(xs) = Count(s, ">") + 1
    /\ \A i \in 1..Len(xs) : Count(xs[i], ">") = 0
    /\ Interleave(xs) = s

\* C9: for every string s, deserialize_module_path gives the non-empty
\* sequence, in the order of s, of the substrings of s that `>` separates
\* ("app>lib-a>lib-b" gives app, lib-a, lib-b) and serialize_module_path of
\* that sequence gives s again; deserialize_module_path_vec and
\* serialize_module_path_vec do the same for each string of an array.
C9_ModulePathRoundTrip ==
    /\ json_in.ty = "module_path" /\ json_in.j.t = "str" /\ pc # "codec" =>
          /\ decoded.ok
          /\ IsSplitOf(decoded.v, json_in.j.s)
          /\ json_in.j.s = AppLibPath => decoded.v = <<<<"app">>, <<"lib-a">>, <<"lib-b">>>>
          /\ pc = "done" => encoded = json_in.j
    /\ /\ json_in.ty = "module_path_vec"
       /\ json_in.j.t = "arr"
       /\ \A i \in 1..Len(json_in.j.a) : json_in.j.a[i].t = "str"
       /\ pc # "codec"
       => /\ decoded.ok
          /\ Len(decoded.v) = Len(json_in.j.a)
          /\ \A i \in 1..Len(json_in.j.a) : IsSplitOf(decoded.v[i], json_in.j.a[i].s)
          /\ pc = "done" => encoded = json_in.j

C9_Witness ==
    /\ pc = "done"
    /\ json_in = Job("module_path", JStr(<<">", "a", ">", ">">>))
    /\ decoded = Ok(<<<<>>, <<"a">>, <<>>, <<>>>>)
    /\ encoded = json_in.j


\* how many members named k the value j has (none when it is no object)
Occurrences(j, k) ==
    IF j.t = "obj" THEN Cardinality({i \in 1..Len(j.o) : j.o[i].k = k}) ELSE 0

\* the member k of the object j
Get(j, k) == ValueAt(j, <<Key(k)>>)

IsString(j) == j.t = "str"

\* an integer literal in 0 .. 2^64-1
IsU64(j) == (j.t = "num" /\ j.n >= 0) \/ j.t = "bignum"

SeverityNames ==
    ("none" :> "None") @@ ("info" :> "Info") @@ ("low" :> "Low")
    @@ ("moderate" :> "Moderate") @@ ("high" :> "High") @@ ("critical" :> "Critical")

IsSeverityName(j) == j.t = "str" /\ \E n \in DOMAIN SeverityNames : j.s = <<n>>

ViaFields == {"source", "name", "dependency", "title", "url", "severity", "range"}

\* an object with each member of the full `via` shape once and of its type
IsFullVia(j) ==
    /\ j.t = "obj"
    /\ \A k \in ViaFields : Occurrences(j, k) = 1
    /\ IsU64(Get(j, "source"))
    /\ \A k \in {"name", "dependency", "title", "url", "range"} : IsString(Get(j, k))
    /\ IsSeverityName(Get(j, "severity"))

\* C5: a `via` entry decodes by its shape: a JSON string is NameOnly with that
\* string; an object holding source, name, dependency, title, url, severity
\* and range, each with its type, is Full with those values; an object lacking
\* one of the seven is a decode failure, so NameOnly comes from strings only
\* and a Full value has all its seven fields from the object.
C5_ViaDecodesByShape ==
    json_in.ty = "Vulnerability" /\ pc # "codec" =>
        LET j == json_in.j
        IN  /\ j.t = "str" => decoded = Ok([variant |-> "NameOnly", v |-> j.s])
            /\ IsFullVia(j) =>
                  decoded = Ok([variant |-> "Full",
                                v |-> [source |-> Get(j, "source"),
                                       name |-> Get(j, "name").s,
                                       dependency |-> Get(j, "dependency").s,
                                       title |-> Get(j, "title").s,
                                       url |-> Get(j, "url").s,
                                       severity |-> [variant |-> SeverityNames[Get(j, "severity").s[1]]],
                                       range |-> Get(j, "range").s]])
            /\ (j.t = "obj" /\ \E k \in ViaFields : Occurrences(j, k) = 0) => ~decoded.ok
            /\ decoded.ok /\ decoded.v.variant = "NameOnly" => j.t = "str"
            /\ decoded.ok /\ decoded.v.variant = "Full" =>
                  /\ j.t = "obj"
                  /\ \A k \in ViaFields : Occurrences(j, k) = 1
                  /\ DOMAIN decoded.v.v = ViaFields

C5_Witness ==
    /\ pc = "done"
    /\ json_in.ty = "Vulnerability"
    /\ json_in.j.t = "obj"
    /\ Occurrences(json_in.j, "name") = 1
    /\ Occurrences(json_in.j, "title") = 0
    /\ Occurrences(json_in.j, "range") = 1
    /\ ~decoded.ok
    /\ decoded.msg = NoVariantMatched

\* an object with each member of the full `fixAvailable` shape once and of its
\* type
IsFullFix(j) ==
    /\ j.t = "obj"
    /\ \A k \in {"name", "version", "isSemVerMajor"} : Occurrences(j, k) = 1
    /\ IsString(Get(j, "name"))
    /\ IsString(Get(j, "version"))
    /\ Get(j, "isSemVerMajor").t = "bool"

\* C6: a `fixAvailable` value decodes by its shape: true and false are
\* BoolOnly with that boolean; an object holding name, version and
\* isSemVerMajor is Full with exactly those values; every other value, an
\* object lacking one of the three among them, is a decode failure.
C6_FixDecodesByShape ==
    json_in.ty = "Fix" /\ pc # "codec" =>
        LET j == json_in.j
        IN  /\ j.t = "bool" => decoded = Ok([variant |-> "BoolOnly", v |-> j.b])
            /\ IsFullFix(j) =>
                  decoded = Ok([variant |-> "Full",
                                v |-> [name |-> Get(j, "name").s,
                                       version |-> Get(j, "version").s,
                                       is_sem_ver_major |-> Get(j, "isSemVerMajor").b]])
            /\ j.t # "bool" /\ ~IsFullFix(j) => ~decoded.ok
            /\ decoded.ok /\ decoded.v.variant = "BoolOnly" => j.t = "bool"

C6_Witness ==
    /\ pc = "done"
    /\ json_in.ty = "Fix"
    /\ json_in.j.t = "obj"
    /\ Occurrences(json_in.j, "name") = 1
    /\ Occurrences(json_in.j, "version") = 1
    /\ Occurrences(json_in.j, "isSemVerMajor") = 0
    /\ Occurrences(json_in.j, "is_sem_ver_major") = 1
    /\ ~decoded.ok


\* the value of the last member named k of the object j
Last(j, k) ==
    j.o[CHOOSE i \in 1..Len(j.o) :
           j.o[i].k = k /\ \A h \in (i + 1)..Len(j.o) : j.o[h].k # k].v

Keys(j) == {j.o[i].k : i \in 1..Len(j.o)}

\* two documents with the same keys and the same values at every level; two
\* strings are the same value when they are equal or are RFC 3339 timestamps
\* of the same instant
RECURSIVE Equivalent(_, _)
Equivalent(a, b) ==
    IF a.t # b.t THEN FALSE
    ELSE CASE a.t = "str" ->
                \/ a.s = b.s
                \/ /\ IsRfc3339(a.s)
                   /\ IsRfc3339(b.s)
                   /\ Instant(OffsetDateTime_parse(a.s)) = Instant(OffsetDateTime_parse(b.s))
           [] a.t = "arr" ->
                /\ Len(a.a) = Len(b.a)
                /\ \A i \in 1..Len(a.a) : Equivalent(a.a[i], b.a[i])
           [] a.t = "obj" ->
                /\ Keys(a) = Keys(b)
                /\ \A k \in Keys(a) : Equivalent(Last(a, k), Last(b, k))
           [] OTHER -> a = b

\* the document j holds, at every level, exactly the members the type
\* declares, each once: every struct is an object of all its fields and no
\* other member, every map has distinct keys, every enumeration value is a
\* name
RECURSIVE HoldsDeclared(_, _)
HoldsDeclared(ty, j) ==
    CASE ty.k \in {"string", "bool", "u32", "u64", "unit_enum"} -> j.t \notin {"obj", "arr"}
      [] ty.k = "with" -> j.t # "obj"
      [] ty.k = "option" -> j.t = "null" \/ HoldsDeclared(ty.of, j)
      [] ty.k = "vec" ->
            j.t = "arr" /\ \A i \in 1..Len(j.a) : HoldsDeclared(ty.of, j.a[i])
      [] ty.k = "map" ->
            /\ j.t = "obj"
            /\ \A k \in Keys(j) : Occurrences(j, k) = 1 /\ HoldsDeclared(ty.of, Get(j, k))
      [] ty.k = "struct" ->
            /\ j.t = "obj"
            /\ Len(j.o) = Len(ty.fields)
            /\ \A f \in 1..Len(ty.fields) :
                  /\ Occurrences(j, ty.fields[f].json) = 1
                  /\ HoldsDeclared(ty.fields[f].ty, Get(j, ty.fields[f].json))
      [] ty.k = "tagged" ->
            /\ j.t = "obj"
            /\ Occurrences(j, ty.tag) = 1
            /\ Get(j, ty.tag).t = "str"
            /\ VariantIndex(ty.variants, Get(j, ty.tag).s) # 0
            /\ HoldsDeclared(ty.variants[VariantIndex(ty.variants, Get(j, ty.tag).s)].ty,
                             JObj(SelectSeq(j.o, LAMBDA m : m.k # ty.tag)))
      [] ty.k = "untagged" ->
            \E i \in 1..Len(ty.variants) : HoldsDeclared(ty.variants[i].ty, j)

\* a document of the first report format was decoded and encoded again
RoundTrip == json_in.ty = "NpmAuditDataV1" /\ pc = "done" /\ decoded.ok

\* C8, as claimed: for every document that decodes as NpmAuditDataV1, the
\* encoding of the decoded value is equivalent to the document: the same keys
\* with the same values at every level, path strings re-joined to the
\* original strings, timestamps denoting the same instants.
C8_RoundTripEquivalent ==
    RoundTrip => Equivalent(encoded, json_in.j)

\* C8, amended: for every document that decodes as NpmAuditDataV1, the
\* encoding of the decoded value holds exactly the declared members and
\* decodes to the same value again; it is equivalent to the document (same
\* keys, same values at every level, same path strings, timestamps of the same
\* instants) when the document itself holds exactly the declared members.
C8_RoundTripOfDeclaredMembers ==
    RoundTrip =>
        /\ HoldsDeclared(NpmAuditDataV1, encoded)
        /\ Decode(NpmAuditDataV1, encoded) = decoded
        /\ HoldsDeclared(NpmAuditDataV1, json_in.j) => Equivalent(encoded, json_in.j)

C8_Witness ==
    /\ RoundTrip
    /\ HoldsDeclared(NpmAuditDataV1, json_in.j)
    /\ Get(ValueAt(json_in.j, AtAdvisory), "created")
          = JStr(<<"2021-03-01", "t", "00:30:00", ".50", "+00:00">>)
    /\ Get(ValueAt(encoded, AtAdvisory), "created")
          = JStr(<<"2021-03-01", "T", "00:30:00", ".5", "Z">>)
    /\ Get(ValueAt(json_in.j, AtResolves), "path") = JStr(<<"app", ">", ">", "lodash">>)
    /\ Get(ValueAt(encoded, AtResolves), "path") = JStr(<<"app", ">", ">", "lodash">>)


(***************************************************************************)
(* outdated()                                                               *)
(***************************************************************************)
\* how many edits a varied package entry has at most
MaxEntryEdits == 3

\* the documents `npm outdated --json --long` is taken to print
OutdatedDocs ==
    {ApplyAt(OutdatedDoc, <<Key("lodash")>>, Set(<<>>, e)) :
        e \in Variations(PackageStatusDoc, EditsPackageStatus, MaxEntryEdits)}
    \cup {JObj(<<>>), JArr(<<>>), JObj(<<Member("lodash", JNull)>>)}

OutdatedStdouts ==
    {InvalidUtf8, NotJson, JsonText(OutdatedDoc, TRUE)}
    \cup {JsonText(d, FALSE) : d \in OutdatedDocs}

InitOutdated ==
    /\ pc = "outdated"
    /\ tracing \in TracingLevels
    /\ version_output = Unset
    /\ version = Unset
    /\ parsed = Unset
    /\ report_format = 0
    /\ output = Unset
    /\ update_requirement = "unassigned"
    /\ ret = Unset
    /\ json_in = Unset
    /\ decoded = Unset
    /\ encoded = Unset

\* let output = cmd.output()?;
RunOutdatedCmd ==
    /\ pc = "outdated"
    /\ \/ /\ ret' = RetErr("StdIoError", Unset)
          /\ pc' = "done"
          /\ UNCHANGED output
       \/ \E success \in BOOLEAN, stdout \in OutdatedStdouts, stderr \in Stderrs :
             /\ output' = [success |-> success, stdout |-> stdout, stderr |-> stderr]
             /\ pc' = "output"
             /\ UNCHANGED ret
    /\ UNCHANGED <<version_output, version, parsed, report_format, tracing,
                   update_requirement, json_in, decoded, encoded>>

\* if !output.status.success() { warn!(..); debug!(..?); if !stderr.is_empty() { warn!(..?) } }
LogOutdatedExit ==
    /\ pc = "output"
    /\ LET r == LogUnsuccessful(output, tracing)
       IN  IF r = Unset
           THEN pc' = "logged" /\ UNCHANGED ret
           ELSE pc' = "done" /\ ret' = r
    /\ UNCHANGED <<version_output, version, parsed, report_format, output, tracing,
                   update_requirement, json_in, decoded, encoded>>

\* let update_requirement = if output.status.success() { UpdateRequired } else { UpToDate };
OutdatedUpdateRequirementMutantAsAudit(success) ==
    IF success THEN "UpToDate" ELSE "UpdateRequired"

OutdatedUpdateRequirement(success) ==
    IF success THEN "UpdateRequired" ELSE "UpToDate"

\* serde_json::from_str::<T>(text): the text is one JSON value, decoded as T,
\* with nothing but whitespace after it
from_str(ty, text) ==
    IF ~text.json THEN Err(<<>>, Syntax)
    ELSE LET r == Decode(ty, text.doc)
         IN  IF r.ok /\ text.trailing THEN Err(<<>>, TrailingCharacters) ELSE r

\* from `let update_requirement` to `Ok((update_requirement, data))`
DecodeOutdatedReport ==
    /\ pc = "logged"
    /\ update_requirement' = OutdatedUpdateRequirement(output.success)
    /\ IF ~output.stdout.utf8
       THEN ret' = RetErr("Utf8Error", Unset)
       ELSE LET data == from_str(NpmOutdatedData, output.stdout)
            IN  IF data.ok
                THEN ret' = RetOk(update_requirement', data.v)
                ELSE ret' = RetErr("SerdeJsonError", data.msg)
    /\ pc' = "done"
    /\ UNCHANGED <<version_output, version, parsed, report_format, output, tracing,
                   json_in, decoded, encoded>>

NextOutdated == RunOutdatedCmd \/ LogOutdatedExit \/ DecodeOutdatedReport

SpecOutdated == InitOutdated /\ [][NextOutdated]_vars

(***************************************************************************)
(* Properties of outdated()                                                 *)
(***************************************************************************)
CrossVersionFields == {"location", "dependent", "homepage"}

\* a package entry with wanted, latest and type, and with each of location,
\* dependent and homepage either absent or a string
IsPackageEntry(e) ==
    /\ e.t = "obj"
    /\ \A k \in {"wanted", "latest", "type"} : Occurrences(e, k) = 1 /\ IsString(Get(e, k))
    /\ \A k \in CrossVersionFields :
          Occurrences(e, k) = 0 \/ (Occurrences(e, k) = 1 /\ IsString(Get(e, k)))

\* outdated() ran to its end on a text that is one JSON object of package
\* entries
OutdatedRead ==
    /\ pc = "done"
    /\ update_requirement # "unassigned"
    /\ output.stdout.utf8
    /\ output.stdout.json
    /\ ~output.stdout.trailing
    /\ output.stdout.doc.t = "obj"
    /\ \A k \in Keys(output.stdout.doc) :
          Occurrences(output.stdout.doc, k) = 1 /\ IsPackageEntry(Get(output.stdout.doc, k))

\* C10: a package entry that has wanted, latest and type decodes whichever of
\* location, dependent and homepage it lacks: outdated() returns the report,
\* and each of the three the entry lacks is absent (None) in its PackageStatus.
C10_CrossVersionFieldsOptional ==
    OutdatedRead =>
        /\ ret.ok
        /\ \A k \in Keys(output.stdout.doc), f \in CrossVersionFields :
              Occurrences(Get(output.stdout.doc, k), f) = 0 => ret.data[k][f] = None


(***************************************************************************)
(* Severity: the derived ordering                                           *)
(***************************************************************************)
\* longest sequence of severities, other than the permutations of all six
MaxSeverities == 3

\* the values of the type
SeverityValues == {[variant |-> Severity.variants[i].name] : i \in 1..Len(Severity.variants)}

\* the discriminant of a value: the position of its variant in the declaration
Discriminant(v) == CHOOSE i \in 1..Len(Severity.variants) : Severity.variants[i].name = v.variant

\* #[derive(PartialOrd, Ord)]: values compare as their discriminants do
cmp(a, b) ==
    IF Discriminant(a) < Discriminant(b) THEN "Less"
    ELSE IF Discriminant(a) = Discriminant(b) THEN "Equal"
    ELSE "Greater"

\* xs.sort(): the values of xs in the order of cmp, equal values in the order
\* they had
RECURSIVE sort(_)
sort(xs) ==
    IF xs = <<>> THEN <<>>
    ELSE LET rest == sort(SubSeq(xs, 1, Len(xs) - 1))
             x == xs[Len(xs)]
             k == Cardinality({i \in 1..Len(rest) : cmp(rest[i], x) # "Greater"})
         IN  SubSeq(rest, 1, k) \o <<x>> \o SubSeq(rest, k + 1, Len(rest))

\* the orders a set of values can be written in
RECURSIVE Orders(_)
Orders(V) ==
    IF V = {} THEN {<<>>}
    ELSE UNION {{<<x>> \o p : p \in Orders(V \ {x})} : x \in V}

SeverityLists == Orders(SeverityValues) \cup SeqsUpTo(SeverityValues, MaxSeverities)

InitSeverity ==
    /\ pc = "severity"
    /\ json_in \in SeverityLists
    /\ decoded = Unset
    /\ encoded = Unset
    /\ tracing = "off"
    /\ version_output = Unset
    /\ version = Unset
    /\ parsed = Unset
    /\ report_format = 0
    /\ output = Unset
    /\ update_requirement = "unassigned"
    /\ ret = Unset

\* a.cmp(&b), for the two values of a pair
Compare ==
    /\ pc = "severity"
    /\ Len(json_in) = 2
    /\ decoded' = cmp(json_in[1], json_in[2])
    /\ pc' = "compared"
    /\ UNCHANGED <<version_output, version, parsed, report_format, output, tracing,
                   update_requirement, ret, json_in, encoded>>

\* xs.sort()
Sort ==
    /\ pc = "severity"
    /\ decoded' = sort(json_in)
    /\ pc' = "sorted"
    /\ UNCHANGED <<version_output, version, parsed, report_format, output, tracing,
                   update_requirement, ret, json_in, encoded>>

NextSeverity == Compare \/ Sort

SpecSeverity == InitSeverity /\ [][NextSeverity]_vars

(***************************************************************************)
(* Properties of Severity                                                   *)
(***************************************************************************)
SeverityChain == <<"None", "Info", "Low", "Moderate", "High", "Critical">>

\* where a value stands in the chain
Place(v) == CHOOSE i \in 1..6 : SeverityChain[i] = v.variant

\* C11: Severity has the six values None, Info, Low, Moderate, High, Critical
\* and no other; two values compare as their places in that chain do (so
\* exactly one of less, equal, greater holds, and greater one way is less the
\* other way); sorting a sequence that holds each of the six once gives the
\* chain, and sorting any sequence gives the same values in chain order.
C11_SeverityOrder ==
    /\ \A i \in 1..Len(json_in) : \E n \in 1..6 : json_in[i] = [variant |-> SeverityChain[n]]
    /\ pc = "severity" /\ Len(json_in) = 2 => ENABLED Compare
    /\ pc = "compared" =>
          /\ decoded = "Less" <=> Place(json_in[1]) < Place(json_in[2])
          /\ decoded = "Equal" <=> json_in[1] = json_in[2]
          /\ decoded = "Greater" <=> Place(json_in[1]) > Place(json_in[2])
          /\ decoded = "Less" <=> cmp(json_in[2], json_in[1]) = "Greater"
    /\ pc = "sorted" =>
          /\ Len(decoded) = Len(json_in)
          /\ \A v \in SeverityValues :
                Cardinality({i \in 1..Len(decoded) : decoded[i] = v})
                   = Cardinality({i \in 1..Len(json_in) : json_in[i] = v})
          /\ \A i \in 1..(Len(decoded) - 1) : Place(decoded[i]) <= Place(decoded[i + 1])
          /\ Len(json_in) = 6 => decoded = [n \in 1..6 |-> [variant |-> SeverityChain[n]]]

C11_Witness ==
    /\ pc = "sorted"
    /\ json_in = <<[variant |-> "High"], [variant |-> "None"], [variant |-> "Critical"],
                   [variant |-> "Low"], [variant |-> "Info"], [variant |-> "Moderate"]>>
    /\ decoded = <<[variant |-> "None"], [variant |-> "Info"], [variant |-> "Low"],
                   [variant |-> "Moderate"], [variant |-> "High"], [variant |-> "Critical"]>>


(***************************************************************************)
(* Properties of the untagged NpmAuditData                                  *)
(***************************************************************************)
\* the object j holds the member k once, and its value decodes as ty
ValidOnce(j, k, ty) == Occurrences(j, k) = 1 /\ Decode(ty, Get(j, k)).ok

ValidOrAbsent(j, k, ty) == Occurrences(j, k) = 0 \/ ValidOnce(j, k, ty)

\* the shapes as claimed: the required members of each format
HasActionsAndAdvisories(j) ==
    /\ j.t = "obj"
    /\ ValidOnce(j, "actions", TVec(Action))
    /\ ValidOnce(j, "advisories", TMap(Advisory))

HasVulnerabilitiesAndMetadata(j) ==
    /\ j.t = "obj"
    /\ ValidOnce(j, "vulnerabilities", TMap(VulnerablePackage))
    /\ ValidOnce(j, "metadata", MetadataV2)

\* the shapes with the optional members: each absent or valid
IsVersion1Shape(j) ==
    /\ HasActionsAndAdvisories(j)
    /\ ValidOrAbsent(j, "runId", TOption(TString))
    /\ ValidOrAbsent(j, "muted", TOption(TVec(TString)))

IsVersion2Shape(j) ==
    /\ HasVulnerabilitiesAndMetadata(j)
    /\ ValidOrAbsent(j, "auditReportVersion", TOption(TU32))

\* a document was decoded directly as NpmAuditData
DecodedDirectly == json_in.ty = "NpmAuditData" /\ pc # "codec"

IsOutdatedReport ==
    /\ output.stdout.utf8
    /\ output.stdout.json
    /\ ~output.stdout.trailing
    /\ Decode(NpmOutdatedData, output.stdout.doc).ok

\* C13: outdated() maps the exit status the other way round than audit():
\* a returned outcome is UpdateRequired exactly after a successful exit and
\* UpToDate exactly after an unsuccessful one, whatever the payload is, and an
\* outcome is returned only together with the report decoded from stdout.
C13_OutdatedPolarity ==
    pc = "done" =>
        /\ ret.ok =>
              /\ ret.requirement = "UpdateRequired" <=> output.success
              /\ ret.requirement = "UpToDate" <=> ~output.success
              /\ ret.requirement # AuditUpdateRequirement(output.success)
              /\ IsOutdatedReport
              /\ ret.data = Decode(NpmOutdatedData, output.stdout.doc).v
        /\ ~ret.ok => DOMAIN ret = {"ok", "error", "detail"}
        /\ (output # Unset /\ output.stderr.utf8 /\ IsOutdatedReport) => ret.ok

C13_Witness ==
    /\ pc = "done"
    /\ ret.ok
    /\ output.success
    /\ output.stdout = JsonText(OutdatedDoc, FALSE)
    /\ ret.requirement = "UpdateRequired"
    /\ DOMAIN ret.data = {"lodash", "left-pad"}

====
